---- MODULE Spec2Model ----
(***************************************************************************)
(* A model of play_match() (src/main.py) and of the PlayerState ledger     *)
(* (src/engine_core.py) of the Koper poker tournament engine.              *)
(*                                                                         *)
(* Money.  The program computes stacks, bets and the pot in floating       *)
(* point.  The model computes them exactly: every amount is an integer     *)
(* number of 1/Scale dollars, and Scale is chosen so that every division   *)
(* play_match performs within MaxGames hands is exact (ScaleExact below    *)
(* states it).                                                             *)
(*                                                                         *)
(* Cards.  The shuffle decides two things: which cards a seat holds and    *)
(* how the hands rank.  The model deals card numbers from the top of the   *)
(* deck and lets the rank of each hand at showdown be any value of         *)
(* ScoreVals.                                                              *)
(*                                                                         *)
(* Strategies are external: each decision is any value of R1Choices or     *)
(* RawChoices.                                                             *)
(***************************************************************************)
EXTENDS Integers, Sequences, FiniteSets, TLC

\* ------------------------------------------------------------------------
\* Bounds of the model
\* ------------------------------------------------------------------------

\* Number of hands played by the modelled match (NUM_GAMES in the program).
MaxGames == 2

\* Largest number of trials asked of the equity estimate (iterations).
MaxTrials == 3

\* ------------------------------------------------------------------------
\* Program constants
\* ------------------------------------------------------------------------

NumPlayers == 5

STARTING_STACK_DOLLARS == 10000

BUY_IN_DOLLARS == 100

R1_MIN_DOLLARS == 100

R1_MAX_DOLLARS == 300

CAP_MULTIPLIER == 4

SENTINEL_SCORE == 7463

DECK_SIZE == 52

\* ------------------------------------------------------------------------
\* Units
\* ------------------------------------------------------------------------

RECURSIVE Pow(_, _)
Pow(b, e) == IF e = 0 THEN 1 ELSE b * Pow(b, e - 1)

\* One hand divides amounts by 2 and then by 4 (the round-2 and round-3
\* bounds), by the number of winners and by the number of redistribution
\* recipients: 8 * 36 covers up to three winners and three recipients.
Scale == Pow(288, MaxGames)

Dollars(n) == n * Scale

BUY_IN == Dollars(BUY_IN_DOLLARS)

R1_MIN == Dollars(R1_MIN_DOLLARS)

R1_MAX == Dollars(R1_MAX_DOLLARS)

\* A full win is WinUnit win credits, so that 1 / num_winners is exact.
WinUnit == 3 * 4 * 5

Seats == 0 .. (NumPlayers - 1)

\* ------------------------------------------------------------------------
\* Inputs
\* ------------------------------------------------------------------------

\* Stacks (in dollars) at the start of the first modelled hand.  Besides the
\* fresh 10000 they are amounts earlier hands can leave a seat with; a seat
\* with 0 is eliminated by the first buy-in.
InitStacks ==
    { <<STARTING_STACK_DOLLARS, STARTING_STACK_DOLLARS, 0, 0, 0>>,
      <<STARTING_STACK_DOLLARS, 250, 150, 0, 0>>,
      <<200, STARTING_STACK_DOLLARS, 250, 0, 0>>,
      <<STARTING_STACK_DOLLARS, 50, 0, 0, 0>>,
      <<300, 190, 190, 190, 190>>,
      <<200, 200, 200, 0, 0>> }

\* Raw bet values a strategy may return (dollars): one below every lower
\* bound, one above every upper bound.
RawDollars == {0, 5000}

RawVals == { Dollars(d) : d \in RawDollars }

\* What a strategy call can produce: a fold signal (round 1 only), a numeric
\* raw value, or a fault (the call raises, or the value is not a number).
R1Choices == {<<"fold", 0>>, <<"fault", 0>>} \cup { <<"play", v>> : v \in RawVals }

RawChoices == {<<"fault", 0>>} \cup { <<"play", v>> : v \in RawVals }

\* Scores evaluate_hand can return for a dealt hand (treys: 1 is best,
\* 7462 is worst).
ScoreVals == {1, 7462}

\* ------------------------------------------------------------------------
\* Pure helpers
\* ------------------------------------------------------------------------

Min2(a, b) == IF a < b THEN a ELSE b

Max2(a, b) == IF a > b THEN a ELSE b

RECURSIVE SumOver(_, _)
SumOver(f, S) ==
    IF S = {} THEN 0
    ELSE LET x == CHOOSE y \in S : TRUE IN f[x] + SumOver(f, S \ {x})

RECURSIVE SortedSeq(_)
SortedSeq(S) ==
    IF S = {} THEN <<>>
    ELSE LET m == CHOOSE y \in S : \A z \in S : y <= z
         IN <<m>> \o SortedSeq(S \ {m})

Range(s) == { s[i] : i \in 1 .. Len(s) }

\* create_deck(): 52 distinct cards; card i is the i-th card of the shuffled
\* deck.
create_deck == [i \in 1 .. DECK_SIZE |-> i]

\* reset_round(): the empty values of the per-hand fields.
EmptyHole == <<>>

\* float(val) at lines 160, 267 and 308: a number keeps its value, anything
\* else raises.  A choice is <<kind, value>>.
IsNumeric(ch) == ch[1] = "play"

FloatOf(ch) == ch[2]

\* A faulty clamp: the upper limit of 300 is not applied.
ClampR1NoUpper(val) == Max2(R1_MIN, val)

\* Line 160: price = max(100.0, min(300.0, float(val))).
ClampR1(val) == Max2(R1_MIN, Min2(R1_MAX, val))

\* A faulty clamp: the lower bound 0.5 * R1 is not applied.
ClampR2NoLower(r1, val) == Min2((r1 * 3) \div 2, val)

\* Lines 265-267: the round-2 bounds 0.5 * R1 and 1.5 * R1, and the clamp.
R2Min(r1) == (r1 * 1) \div 2

R2Max(r1) == (r1 * 3) \div 2

ClampR2(r1, val) == Max2(R2Min(r1), Min2(R2Max(r1), val))

\* Lines 306-308: the round-3 bounds 0.75 * R2 and 1.25 * R2, and the clamp.
R3Min(r2) == (r2 * 3) \div 4

R3Max(r2) == (r2 * 5) \div 4

ClampR3(r2, val) == Max2(R3Min(r2), Min2(R3Max(r2), val))

\* A faulty cap: the bet is not limited to the stack.
CapAtStackMissing(price, stk) == price

\* Lines 163, 270, 311: price = min(price, p.stack).
CapAtStack(price, stk) == Min2(price, stk)

\* A faulty test: every dealt seat is let into round 1.
CanAffordR1Always(stk) == TRUE

\* Line 130: the round-1 affordability test.
CanAffordR1(stk) == ~(stk < R1_MIN)

\* A faulty test: a stack of exactly the buy-in is turned away.
CanAffordBuyInStrict(stk) == stk > BUY_IN

\* Line 94: the buy-in affordability test.
CanAffordBuyIn(stk) == ~(stk < BUY_IN)

\* A faulty early cap: the winner's own round-1 bet is left out.
WinningCapEarlyNoBet(bet) == CAP_MULTIPLIER * BUY_IN

\* Line 184: winning_cap = 4 * (BUY_IN + winner_bet).
WinningCapEarly(bet) == CAP_MULTIPLIER * (BUY_IN + bet)

\* A faulty cap: the winner's own bets are left out.
WinningCapNoBets(b1, b2, b3) == CAP_MULTIPLIER * BUY_IN

\* Line 374: winning_cap = 4 * (BUY_IN + r1 + r2 + final bet).
WinningCap(b1, b2, b3) == CAP_MULTIPLIER * (BUY_IN + b1 + b2 + b3)

\* A faulty payout: the cap is ignored.
ActualWinUncapped(cap, share) == share

\* Lines 185 and 375: min(winning_cap, share).
ActualWin(cap, share) == Min2(cap, share)

\* A faulty share: the pot is not divided among the winners.
PotShareUndivided(p, n) == p

\* Line 366: winning_pot_share_max = pot / num_winners.
PotShare(p, n) == p \div n

\* A faulty share: the remainder is divided by one recipient too many.
RedistShareOneTooMany(remaining, n) == remaining \div (n + 1)

\* Line 404: share = remaining_pot / len(recipients).
RedistShare(remaining, n) == remaining \div n

\* A faulty credit: every winner of a tie is credited a whole win.
WinCreditWhole(n) == WinUnit

\* Line 371: 1 / num_winners, in win credits.
WinCredit(n) == WinUnit \div n

\* A faulty log: all five community cards instead of the flop.
VisibleFlopAll(cc) == cc

\* Lines 206 and 244: community_cards[:3].
VisibleFlop(cc) == SubSeq(cc, 1, 3)

\* calculate_multiplayer_equity(hole, visible, num_players): the estimate is
\* a random value; an estimate is identified here by the call that produced
\* it, <<number of visible cards, number of players>>.
EquityCall(visible, players_in_hand) == <<visible, players_in_hand>>

\* ------------------------------------------------------------------------
\* State
\* ------------------------------------------------------------------------

VARIABLES
    pc,                     \* position of play_match in its code
    game_num,               \* the for-loop variable (0 before the first hand)
    stack,                  \* PlayerState.stack, per seat
    is_lost_match,          \* PlayerState.is_lost_match
    hole_cards,             \* PlayerState.hole_cards
    current_bet_r1,         \* PlayerState.current_bet_r1
    current_bet_r2,         \* PlayerState.current_bet_r2
    final_round_bet,        \* PlayerState.final_round_bet
    has_folded,             \* PlayerState.has_folded
    hand_score,             \* PlayerState.hand_score
    round_equities,         \* PlayerState.round_equities
    match_history,          \* list of round_history entries
    no_of_wins,             \* win credits per seat
    pot,
    community_cards,
    active_players_indices,
    current_stacks,         \* snapshot of the stacks taken at line 126
    round1_active_indices,
    r1_bets,
    r2_bets,
    round2_active_indices,  \* = round1_post_fold_indices
    cursor,                 \* position of the running for-loop in its list
    winners,
    total_win,
    remaining_pot,
    outcome,                \* how the current hand ended ("none" while it runs)
    called,                 \* per seat, the strategy methods called this hand:
                            \* 0 initialize_game, 1 round1, 2 round2, 3 round3
    payout,                 \* per seat, the capped payout credited this hand
    redist,                 \* per seat, the redistribution share credited
    initialize_game_args,   \* the arguments of the last initialize_game call
    strategy_args           \* per seat, the pot and the equity estimate passed
                            \* to its last round1/round2/round3 call

VARIABLES
    eq_pc,                  \* position of calculate_multiplayer_equity in its
                            \* code ("idle" while it is not running)
    hero_hand,              \* its arguments
    current_board,
    num_players,
    iterations,
    trial,                  \* number of loop iterations done
    equity_wins,            \* wins, counted in half wins
    equity_result,          \* the returned value, <<numerator, denominator>>
    trial_log               \* per trial that was run, <<hero_score,
                            \* best_opponent_score>>

equity_vars == <<eq_pc, hero_hand, current_board, num_players, iterations,
                 trial, equity_wins, equity_result, trial_log>>

ledger == <<stack, is_lost_match, hole_cards, current_bet_r1, current_bet_r2,
            final_round_bet, has_folded, hand_score, round_equities>>

hand_locals == <<pot, community_cards, active_players_indices, current_stacks,
                 round1_active_indices, r1_bets, r2_bets,
                 round2_active_indices, cursor, winners, total_win,
                 remaining_pot>>

observers == <<outcome, called, payout, redist, initialize_game_args,
               strategy_args>>

match_vars == <<pc, game_num, ledger, match_history, no_of_wins, hand_locals,
                observers>>

vars == <<match_vars, equity_vars>>

ZeroPerSeat == [p \in Seats |-> 0]

\* A faulty call: the players' stacks are read at the time of the call.
StacksArgLive(snapshot, live) == live

\* Lines 153, 261 and 302: the stacks argument of a round call is the list
\* current_stacks built at line 126, whatever the players hold by now.
StacksArg(snapshot, live) == snapshot

\* Lines 153, 261 and 302: the stacks, pot and win_prob arguments of a round
\* call (the other arguments are the cards and the bets of the rounds
\* before).
StrategyArgs(stacks_arg, pot_arg, win_prob) ==
    [stacks |-> stacks_arg, pot |-> pot_arg, win_prob |-> win_prob]

\* No round call was made yet.
NoStrategyArgs == [stacks |-> ZeroPerSeat, pot |-> 0, win_prob |-> <<>>]

\* A faulty call: the hand index is passed 0-based.
HookArgsZeroBased(history, num) == [history |-> history, game_num |-> num - 1]

\* Line 73: the arguments of p.strategy.initialize_game(match_history,
\* game_num), the same for every player.
HookArgs(history, num) == [history |-> history, game_num |-> num]

\* PlayerState.__init__ and lines 48-63 of play_match.  The first modelled
\* hand stands for any hand of a match: the stacks it starts with are those
\* of InitStacks, which holds the fresh STARTING_STACK next to amounts earlier
\* hands leave behind.
MatchInit ==
    /\ pc = "loop"
    /\ game_num = 0
    /\ \E s \in InitStacks : stack = [p \in Seats |-> Dollars(s[p + 1])]
    /\ is_lost_match = [p \in Seats |-> FALSE]
    /\ hole_cards = [p \in Seats |-> EmptyHole]
    /\ current_bet_r1 = ZeroPerSeat
    /\ current_bet_r2 = ZeroPerSeat
    /\ final_round_bet = ZeroPerSeat
    /\ has_folded = [p \in Seats |-> FALSE]
    /\ hand_score = ZeroPerSeat
    /\ round_equities = [p \in Seats |-> <<>>]
    /\ match_history = <<>>
    /\ no_of_wins = ZeroPerSeat
    /\ pot = 0
    /\ community_cards = <<>>
    /\ active_players_indices = <<>>
    /\ current_stacks = ZeroPerSeat
    /\ round1_active_indices = <<>>
    /\ r1_bets = ZeroPerSeat
    /\ r2_bets = ZeroPerSeat
    /\ round2_active_indices = <<>>
    /\ cursor = 1
    /\ winners = <<>>
    /\ total_win = 0
    /\ remaining_pot = 0
    /\ outcome = "none"
    /\ called = [p \in Seats |-> {}]
    /\ payout = ZeroPerSeat
    /\ redist = ZeroPerSeat
    /\ initialize_game_args = HookArgs(<<>>, 0)
    /\ strategy_args = [p \in Seats |-> NoStrategyArgs]

\* calculate_multiplayer_equity is not running.
EquityIdle ==
    /\ eq_pc = "idle"
    /\ hero_hand = <<>>
    /\ current_board = <<>>
    /\ num_players = 0
    /\ iterations = 0
    /\ trial = 0
    /\ equity_wins = 0
    /\ equity_result = <<0, 1>>
    /\ trial_log = <<>>

Init == MatchInit /\ EquityIdle

\* ------------------------------------------------------------------------
\* Start of a hand
\* ------------------------------------------------------------------------

\* Lines 66-73: the next iteration of the game loop starts and every
\* player's strategy gets initialize_game(match_history, game_num).
InitializeGame ==
    /\ pc = "loop"
    /\ UNCHANGED equity_vars
    /\ game_num < MaxGames
    /\ game_num' = game_num + 1
    /\ called' = [p \in Seats |-> {0}]
    /\ initialize_game_args' = HookArgs(match_history, game_num + 1)
    /\ strategy_args' = [p \in Seats |-> NoStrategyArgs]
    /\ outcome' = "none"
    /\ payout' = ZeroPerSeat
    /\ redist' = ZeroPerSeat
    /\ pc' = "buyin"
    /\ UNCHANGED <<ledger, match_history, no_of_wins, hand_locals>>

\* PlayerState (engine_core.py 45-62): the mutable fields of the player in
\* seat p, as one record.
PlayerState(p) ==
    [ stack |-> stack[p],
      is_lost_match |-> is_lost_match[p],
      hole_cards |-> hole_cards[p],
      current_bet_r1 |-> current_bet_r1[p],
      current_bet_r2 |-> current_bet_r2[p],
      final_round_bet |-> final_round_bet[p],
      has_folded |-> has_folded[p],
      hand_score |-> hand_score[p],
      round_equities |-> round_equities[p] ]

\* A faulty reset: the folded flag of the previous hand is kept.
ResetRoundKeepsFolded(ps) ==
    [ps EXCEPT !.hole_cards = EmptyHole,
               !.current_bet_r1 = 0,
               !.current_bet_r2 = 0,
               !.final_round_bet = 0,
               !.hand_score = 0,
               !.round_equities = <<>>]

\* PlayerState.reset_round (engine_core.py 64-75).
reset_round(ps) ==
    [ps EXCEPT !.hole_cards = EmptyHole,
               !.current_bet_r1 = 0,
               !.current_bet_r2 = 0,
               !.final_round_bet = 0,
               !.hand_score = 0,
               !.has_folded = FALSE,
               !.round_equities = <<>>]

\* Line 87: the player of seat p after p.reset_round().
AfterReset(p) == reset_round(PlayerState(p))

\* Lines 85-106: who is eliminated at the buy-in and who posts it.
BuyInEliminated == { p \in Seats : ~is_lost_match[p] /\ ~CanAffordBuyIn(stack[p]) }

BuyInPayers == { p \in Seats : ~is_lost_match[p] /\ CanAffordBuyIn(stack[p]) }

\* Line 104: the k-th seat to be dealt (k = 0, 1, ..) pops two cards off the
\* end of the deck.
DealHole(k) == <<create_deck[DECK_SIZE - 2 * k], create_deck[DECK_SIZE - 2 * k - 1]>>

\* Line 109: five more pops after n seats were dealt.
DealCommunity(n) == [j \in 1 .. 5 |-> create_deck[DECK_SIZE - 2 * n - (j - 1)]]

\* Number of seats below p that post the buy-in.
DealtBefore(p) == Cardinality({ q \in BuyInPayers : q < p })

\* A faulty buy-in: the pot is credited but the stack is not charged.
PostBuyInFree(stk) == stk

\* Line 102: p.stack -= BUY_IN.
PostBuyIn(stk) == stk - BUY_IN

\* A faulty pot: a buy-in is booked for every seat of the table.
BuyInPotAllSeats(residuals, payers) == residuals + BUY_IN * NumPlayers

\* Lines 80, 97 and 103: the pot after the buy-in loop holds the residual
\* stacks of the seats eliminated there and one buy-in per paying seat.
BuyInPot(residuals, payers) == residuals + BUY_IN * payers

\* Lines 78-109: reset_round for every player, buy-ins, eliminations, deal.
BuyIn ==
    /\ pc = "buyin"
    /\ UNCHANGED equity_vars
    /\ pot' = BuyInPot(SumOver(stack, BuyInEliminated), Cardinality(BuyInPayers))
    /\ stack' = [p \in Seats |->
                    IF p \in BuyInEliminated THEN 0
                    ELSE IF p \in BuyInPayers THEN PostBuyIn(AfterReset(p).stack)
                    ELSE AfterReset(p).stack]
    /\ is_lost_match' = [p \in Seats |->
                    AfterReset(p).is_lost_match \/ p \in BuyInEliminated]
    /\ hole_cards' = [p \in Seats |->
                    IF p \in BuyInPayers THEN DealHole(DealtBefore(p))
                    ELSE AfterReset(p).hole_cards]
    /\ current_bet_r1' = [p \in Seats |-> AfterReset(p).current_bet_r1]
    /\ current_bet_r2' = [p \in Seats |-> AfterReset(p).current_bet_r2]
    /\ final_round_bet' = [p \in Seats |-> AfterReset(p).final_round_bet]
    /\ hand_score' = [p \in Seats |-> AfterReset(p).hand_score]
    /\ has_folded' = [p \in Seats |-> AfterReset(p).has_folded]
    /\ round_equities' = [p \in Seats |-> AfterReset(p).round_equities]
    /\ active_players_indices' = SortedSeq(BuyInPayers)
    /\ community_cards' = DealCommunity(Cardinality(BuyInPayers))
    /\ pc' = "check"
    /\ UNCHANGED <<game_num, match_history, no_of_wins, current_stacks,
                   round1_active_indices, r1_bets, r2_bets,
                   round2_active_indices, cursor, winners, total_win,
                   remaining_pot, observers>>

\* A faulty safety check: a single seat is enough to go on.
NotEnoughPlayersNone(act) == Len(act) < 1

\* Line 113: len(active_players_indices) < 2.
NotEnoughPlayers(act) == Len(act) < 2

\* Lines 113-115 and 414-430: fewer than 2 seats posted the buy-in; the loop
\* is left and the final results are printed.
HaltMatch ==
    /\ pc = "check"
    /\ UNCHANGED equity_vars
    /\ NotEnoughPlayers(active_players_indices)
    /\ pc' = "done"
    /\ outcome' = "halt"
    /\ UNCHANGED <<game_num, ledger, match_history, no_of_wins, hand_locals,
                   called, payout, redist, initialize_game_args,
                   strategy_args>>

\* A faulty eligibility loop: an eliminated seat still enters round 1.
Round1ActiveKeepsAll(act, stk) == act

\* Lines 128-137: the seats of a list that can afford the round-1 minimum.
Round1Active(act, stk) == SelectSeq(act, LAMBDA i : CanAffordR1(stk[i]))

Round1Eliminated(act, stk) == { i \in Range(act) : ~CanAffordR1(stk[i]) }

\* Lines 120-140: snapshot of the stacks, round-1 affordability check.
Round1Eligibility ==
    /\ pc = "check"
    /\ UNCHANGED equity_vars
    /\ ~NotEnoughPlayers(active_players_indices)
    /\ current_stacks' = stack
    /\ LET gone == Round1Eliminated(active_players_indices, stack)
       IN /\ pot' = pot + SumOver(stack, gone)
          /\ stack' = [p \in Seats |-> IF p \in gone THEN 0 ELSE stack[p]]
          /\ is_lost_match' = [p \in Seats |-> is_lost_match[p] \/ p \in gone]
    /\ round1_active_indices' = Round1Active(active_players_indices, stack)
    /\ r1_bets' = ZeroPerSeat
    /\ cursor' = 1
    /\ pc' = IF round1_active_indices' = <<>> THEN "post_r1" ELSE "r1"
    /\ UNCHANGED <<game_num, hole_cards, current_bet_r1, current_bet_r2,
                   final_round_bet, has_folded, hand_score, round_equities,
                   match_history, no_of_wins, community_cards,
                   active_players_indices, r2_bets, round2_active_indices,
                   winners, total_win, remaining_pot, observers>>

\* ------------------------------------------------------------------------
\* Betting rounds
\* ------------------------------------------------------------------------

\* A faulty loop: the match stops after any hand instead of going on.
AfterHandStops == "done"

\* Lines 66 and 414-430: where play_match goes when the body of the game
\* loop ends: to the next iteration, or out of the loop to the final results
\* once NUM_GAMES hands were played.
AfterHand == IF game_num < MaxGames THEN "loop" ELSE "done"

\* A faulty loop: the round is left after its first seat.
IsLastAlways(pos, list) == TRUE

\* Lines 143, 254 and 295: the for-loop over a list is over after the seat
\* at its last position.
IsLast(pos, list) == pos = Len(list)

\* Line 175: round1_post_fold_indices.
\* A faulty filter: the seats that folded stay in the hand.
Round1PostFoldKeepsAll(act, folded) == act

\* Line 175: the seats of round 1 that did not fold.
Round1PostFold(act, folded) == SelectSeq(act, LAMBDA i : ~folded[i])

\* Lines 143-172: one iteration of the round-1 loop, for the seat at the
\* cursor: equity estimate, strategy call, fold or clamped bet.
Round1Act ==
    /\ pc = "r1"
    /\ UNCHANGED equity_vars
    /\ LET idx == round1_active_indices[cursor]
           win_prob == EquityCall(3, Len(round1_active_indices))
           last == IsLast(cursor, round1_active_indices)
       IN \E ch \in R1Choices :
            /\ called' = [called EXCEPT ![idx] = @ \cup {1}]
            /\ strategy_args' = [strategy_args EXCEPT
                                    ![idx] = StrategyArgs(
                                        StacksArg(current_stacks, stack),
                                        pot, win_prob)]
            /\ IF ch[1] = "fold"
               THEN /\ has_folded' = [has_folded EXCEPT ![idx] = TRUE]
                    /\ round_equities' = [round_equities EXCEPT ![idx] = Append(@, win_prob)]
                    /\ cursor' = IF last THEN 1 ELSE cursor + 1
                    /\ pc' = IF last THEN "post_r1" ELSE "r1"
                    /\ UNCHANGED <<stack, current_bet_r1, r1_bets, pot>>
               ELSE IF ~IsNumeric(ch)
               THEN /\ pc' = "crashed"
                    /\ UNCHANGED <<stack, current_bet_r1, r1_bets, pot, has_folded,
                                   round_equities, cursor>>
               ELSE LET price == CapAtStack(ClampR1(FloatOf(ch)), stack[idx])
                    IN /\ current_bet_r1' = [current_bet_r1 EXCEPT ![idx] = price]
                       /\ r1_bets' = [r1_bets EXCEPT ![idx] = price]
                       /\ stack' = [stack EXCEPT ![idx] = @ - price]
                       /\ pot' = pot + price
                       /\ round_equities' = [round_equities EXCEPT ![idx] = Append(@, win_prob)]
                       /\ cursor' = IF last THEN 1 ELSE cursor + 1
                       /\ pc' = IF last THEN "post_r1" ELSE "r1"
                       /\ UNCHANGED has_folded
    /\ UNCHANGED <<game_num, is_lost_match, hole_cards, current_bet_r2,
                   final_round_bet, hand_score, match_history, no_of_wins,
                   community_cards, active_players_indices, current_stacks,
                   round1_active_indices, r2_bets, round2_active_indices,
                   winners, total_win, remaining_pot, outcome, payout, redist,
                   initialize_game_args>>

\* Lines 195-208 and 233-246: the truncated history entry of a hand without
\* showdown, taken from the ledger given as stk.
TruncatedHistory(stk) ==
    [ seats |-> [p \in Seats |->
                    [ hole_cards |-> hole_cards[p],
                      final_score |-> SENTINEL_SCORE,
                      folded |-> has_folded[p],
                      final_bet |-> 0,
                      equities |-> round_equities[p],
                      stack |-> stk[p] ]],
      community_cards |-> VisibleFlop(community_cards),
      pot_final |-> pot ]

\* Lines 175-213: exactly one seat is left after round 1; it is paid and the
\* hand ends.
EarlyWin ==
    /\ pc = "post_r1"
    /\ UNCHANGED equity_vars
    /\ Len(Round1PostFold(round1_active_indices, has_folded)) = 1
    /\ LET winner_idx == Round1PostFold(round1_active_indices, has_folded)[1]
           winning_cap == WinningCapEarly(current_bet_r1[winner_idx])
           actual_win == ActualWin(winning_cap, pot)
           stk == [stack EXCEPT ![winner_idx] = @ + actual_win]
       IN /\ stack' = stk
          /\ no_of_wins' = [no_of_wins EXCEPT ![winner_idx] = @ + WinCredit(1)]
          /\ match_history' = Append(match_history, TruncatedHistory(stk))
          /\ payout' = [payout EXCEPT ![winner_idx] = actual_win]
    /\ outcome' = "early_win"
    /\ pc' = AfterHand
    /\ UNCHANGED <<game_num, is_lost_match, hole_cards, current_bet_r1,
                   current_bet_r2, final_round_bet, has_folded, hand_score,
                   round_equities, hand_locals, called, redist,
                   initialize_game_args, strategy_args>>

\* Lines 175-178 and 218-251: nobody is left after round 1; the hand ends
\* without payout.
NoPlayersRemain ==
    /\ pc = "post_r1"
    /\ UNCHANGED equity_vars
    /\ Len(Round1PostFold(round1_active_indices, has_folded)) = 0
    /\ round2_active_indices' = Round1PostFold(round1_active_indices, has_folded)
    /\ r2_bets' = ZeroPerSeat
    /\ match_history' = Append(match_history, TruncatedHistory(stack))
    /\ outcome' = "no_players"
    /\ pc' = AfterHand
    /\ UNCHANGED <<game_num, ledger, no_of_wins, pot, community_cards,
                   active_players_indices, current_stacks,
                   round1_active_indices, r1_bets, cursor, winners, total_win,
                   remaining_pot, called, payout, redist,
                   initialize_game_args, strategy_args>>

\* Lines 175-178 and 218-230: two or more seats are left; round 2 starts.
EnterRound2 ==
    /\ pc = "post_r1"
    /\ UNCHANGED equity_vars
    /\ Len(Round1PostFold(round1_active_indices, has_folded)) > 1
    /\ round2_active_indices' = Round1PostFold(round1_active_indices, has_folded)
    /\ r2_bets' = ZeroPerSeat
    /\ cursor' = 1
    /\ pc' = "r2"
    /\ UNCHANGED <<game_num, ledger, match_history, no_of_wins, pot,
                   community_cards, active_players_indices, current_stacks,
                   round1_active_indices, r1_bets, winners, total_win,
                   remaining_pot, observers>>

\* Lines 254-280 (and 286-293 after the last seat): one iteration of the
\* round-2 loop.
Round2Act ==
    /\ pc = "r2"
    /\ UNCHANGED equity_vars
    /\ LET idx == round2_active_indices[cursor]
           win_prob == EquityCall(4, Len(round2_active_indices))
           last == IsLast(cursor, round2_active_indices)
       IN \E ch \in RawChoices :
            /\ called' = [called EXCEPT ![idx] = @ \cup {2}]
            /\ strategy_args' = [strategy_args EXCEPT
                                    ![idx] = StrategyArgs(
                                        StacksArg(current_stacks, stack),
                                        pot, win_prob)]
            /\ IF ~IsNumeric(ch)
               THEN /\ pc' = "crashed"
                    /\ UNCHANGED <<stack, current_bet_r2, r2_bets, pot,
                                   round_equities, cursor>>
               ELSE LET price == CapAtStack(ClampR2(current_bet_r1[idx], FloatOf(ch)),
                                            stack[idx])
                    IN /\ current_bet_r2' = [current_bet_r2 EXCEPT ![idx] = price]
                       /\ r2_bets' = [r2_bets EXCEPT ![idx] = price]
                       /\ stack' = [stack EXCEPT ![idx] = @ - price]
                       /\ pot' = pot + price
                       /\ round_equities' = [round_equities EXCEPT ![idx] = Append(@, win_prob)]
                       /\ cursor' = IF last THEN 1 ELSE cursor + 1
                       /\ pc' = IF last THEN "r3" ELSE "r2"
    /\ UNCHANGED <<game_num, is_lost_match, hole_cards, current_bet_r1,
                   final_round_bet, has_folded, hand_score, match_history,
                   no_of_wins, community_cards, active_players_indices,
                   current_stacks, round1_active_indices, r1_bets,
                   round2_active_indices, winners, total_win, remaining_pot,
                   outcome, payout, redist, initialize_game_args>>

\* Lines 295-321: one iteration of the round-3 loop.
Round3Act ==
    /\ pc = "r3"
    /\ UNCHANGED equity_vars
    /\ LET idx == round2_active_indices[cursor]
           win_prob == EquityCall(5, Len(round2_active_indices))
           last == IsLast(cursor, round2_active_indices)
       IN \E ch \in RawChoices :
            /\ called' = [called EXCEPT ![idx] = @ \cup {3}]
            /\ strategy_args' = [strategy_args EXCEPT
                                    ![idx] = StrategyArgs(
                                        StacksArg(current_stacks, stack),
                                        pot, win_prob)]
            /\ IF ~IsNumeric(ch)
               THEN /\ pc' = "crashed"
                    /\ UNCHANGED <<stack, final_round_bet, pot, round_equities, cursor>>
               ELSE LET price == CapAtStack(ClampR3(current_bet_r2[idx], FloatOf(ch)),
                                            stack[idx])
                    IN /\ final_round_bet' = [final_round_bet EXCEPT ![idx] = price]
                       /\ stack' = [stack EXCEPT ![idx] = @ - price]
                       /\ pot' = pot + price
                       /\ round_equities' = [round_equities EXCEPT ![idx] = Append(@, win_prob)]
                       /\ cursor' = IF last THEN 1 ELSE cursor + 1
                       /\ pc' = IF last THEN "showdown" ELSE "r3"
    /\ UNCHANGED <<game_num, is_lost_match, hole_cards, current_bet_r1,
                   current_bet_r2, has_folded, hand_score, match_history,
                   no_of_wins, community_cards, active_players_indices,
                   current_stacks, round1_active_indices, r1_bets, r2_bets,
                   round2_active_indices, winners, total_win, remaining_pot,
                   outcome, payout, redist, initialize_game_args>>

\* ------------------------------------------------------------------------
\* Showdown
\* ------------------------------------------------------------------------

\* A faulty comparison: a score equal to the best so far is not a winner.
TiesBestNever(score, best_score) == FALSE

\* Line 344: score < best_score.
BeatsBest(score, best_score) == score < best_score

\* Line 347: score == best_score.
TiesBest(score, best_score) == score = best_score

\* Lines 328-348: the scan of active_players_indices from position i on,
\* keeping the best score so far and the seats that hold it.  score gives the
\* result of evaluate_hand for each seat.
RECURSIVE ShowdownScan(_, _, _, _)
ShowdownScan(i, score, best_score, wins) ==
    IF i > Len(active_players_indices)
    THEN [best_score |-> best_score, winners |-> wins]
    ELSE LET idx == active_players_indices[i]
         IN IF has_folded[idx]
            THEN ShowdownScan(i + 1, score, best_score, wins)
            ELSE IF BeatsBest(score[idx], best_score)
            THEN ShowdownScan(i + 1, score, score[idx], <<idx>>)
            ELSE IF TiesBest(score[idx], best_score)
            THEN ShowdownScan(i + 1, score, best_score, Append(wins, idx))
            ELSE ShowdownScan(i + 1, score, best_score, wins)

\* Lines 350-358 and 384-385: the history entry of a showdown hand.
ShowdownHistory(score) ==
    [ seats |-> [p \in Range(active_players_indices) |->
                    [ hole_cards |-> hole_cards[p],
                      final_score |-> IF has_folded[p] THEN 0 ELSE score[p],
                      folded |-> has_folded[p],
                      final_bet |-> final_round_bet[p],
                      equities |-> round_equities[p],
                      stack |-> stack[p] ]],
      community_cards |-> community_cards,
      pot_final |-> pot ]

\* A faulty recipient list: every dealt seat instead of the seats that
\* entered round 2.
RecipientsAllDealt == active_players_indices

\* Line 402: recipients of the redistribution.
Recipients == round2_active_indices

\* Lines 328-412: evaluation, capped payouts, history entry, redistribution.
Showdown ==
    /\ pc = "showdown"
    /\ UNCHANGED equity_vars
    /\ \E score \in [Seats -> ScoreVals] :
        \* evaluate_hand is only called for the dealt seats that did not fold
        /\ \A p \in Seats :
              (p \notin Range(active_players_indices) \/ has_folded[p])
                  => score[p] = CHOOSE v \in ScoreVals : TRUE
        /\ LET scan == ShowdownScan(1, score, SENTINEL_SCORE, <<>>)
               num_winners == Len(scan.winners)
           IN /\ hand_score' = [p \in Seats |->
                    IF p \in Range(active_players_indices) /\ ~has_folded[p]
                    THEN score[p] ELSE hand_score[p]]
              /\ winners' = scan.winners
              /\ IF num_winners = 0
                 THEN /\ outcome' = "no_winner"
                      /\ UNCHANGED <<stack, no_of_wins, match_history, total_win,
                                     remaining_pot, payout, redist>>
                 ELSE LET share_max == PotShare(pot, num_winners)
                          pay == [p \in Seats |->
                                    IF p \in Range(scan.winners)
                                    THEN ActualWin(WinningCap(current_bet_r1[p],
                                                              current_bet_r2[p],
                                                              final_round_bet[p]),
                                                   share_max)
                                    ELSE 0]
                          total == SumOver(pay, Seats)
                          remaining == pot - total
                          share == IF remaining > 0 /\ Len(Recipients) > 0
                                   THEN RedistShare(remaining, Len(Recipients))
                                   ELSE 0
                          back == [p \in Seats |->
                                    IF p \in Range(Recipients) THEN share ELSE 0]
                      IN /\ no_of_wins' = [p \in Seats |->
                                IF p \in Range(scan.winners)
                                THEN no_of_wins[p] + WinCredit(num_winners)
                                ELSE no_of_wins[p]]
                         /\ stack' = [p \in Seats |-> stack[p] + pay[p] + back[p]]
                         /\ total_win' = total
                         /\ remaining_pot' = remaining
                         /\ match_history' = Append(match_history, ShowdownHistory(score))
                         /\ payout' = pay
                         /\ redist' = back
                         /\ outcome' = "showdown"
    /\ pc' = AfterHand
    /\ UNCHANGED <<game_num, is_lost_match, hole_cards, current_bet_r1,
                   current_bet_r2, final_round_bet, has_folded, round_equities,
                   pot, community_cards, active_players_indices, current_stacks,
                   round1_active_indices, r1_bets, r2_bets,
                   round2_active_indices, cursor, called,
                   initialize_game_args, strategy_args>>

Next ==
    \/ InitializeGame
    \/ BuyIn
    \/ HaltMatch
    \/ Round1Eligibility
    \/ Round1Act
    \/ EarlyWin
    \/ NoPlayersRemain
    \/ EnterRound2
    \/ Round2Act
    \/ Round3Act
    \/ Showdown

Spec == Init /\ [][Next]_vars

\* ------------------------------------------------------------------------
\* calculate_multiplayer_equity (engine_core.py 139-214)
\* ------------------------------------------------------------------------

\* Arguments of the modelled calls: the hero holds the first two cards, the
\* board is empty or the flop, turn or river; a table of 24 has more
\* opponents than the unknown cards can serve.
EquityHands == { <<create_deck[1], create_deck[2]>> }

EquityBoards == { SubSeq(create_deck, 3, 2 + n) : n \in {0, 3, 4, 5} }

EquityPlayers == {1, 2, 3, 24}

\* get_clean_deck(): the 52 cards.
get_clean_deck == [i \in 1 .. DECK_SIZE |-> i]

\* Line 160: known_cards = set(hero_hand + current_board).
known_cards == Range(hero_hand) \cup Range(current_board)

\* Line 163.
remaining_deck == SelectSeq(get_clean_deck, LAMBDA c : c \notin known_cards)

\* Line 164.
num_opponents == num_players - 1

\* Line 170.
cards_needed_on_board == 5 - Len(current_board)

\* Line 173: the safety check that skips a trial.
TooFewCards == cards_needed_on_board + num_opponents * 2 > Len(remaining_deck)

MinOf(S) == CHOOSE m \in S : \A x \in S : m <= x

\* A faulty sentinel: without opponents the bar is the worst real score.
BestOpponentScoreWorstReal(opp_scores) ==
    IF opp_scores = <<>> THEN SENTINEL_SCORE - 1 ELSE MinOf(Range(opp_scores))

\* Lines 195-199: 7463 without opponents, else the minimum of their scores.
BestOpponentScore(opp_scores) ==
    IF opp_scores = <<>> THEN SENTINEL_SCORE ELSE MinOf(Range(opp_scores))

\* A faulty count: a tie counts as a whole win.
TrialContributionTieWins(hero_score, best_opponent_score) ==
    IF hero_score <= best_opponent_score THEN 2 ELSE 0

\* Lines 202-205: 1 for a strict win, 0.5 for a tie, in half wins.
TrialContribution(hero_score, best_opponent_score) ==
    IF hero_score < best_opponent_score THEN 2
    ELSE IF hero_score = best_opponent_score THEN 1
    ELSE 0

\* Lines 208-214: wins / iterations (times 100, divided by 100), or 0.0 for
\* zero iterations; w is in half wins.
WinPct(w, n) == IF n = 0 THEN <<0, 1>> ELSE <<w, 2 * n>>

\* A call of calculate_multiplayer_equity with its arguments; lines 156-164.
EquityInit ==
    /\ MatchInit
    /\ eq_pc = "trials"
    /\ hero_hand \in EquityHands
    /\ current_board \in EquityBoards
    /\ num_players \in EquityPlayers
    /\ iterations \in 0 .. MaxTrials
    /\ trial = 0
    /\ equity_wins = 0
    /\ equity_result = <<0, 1>>
    /\ trial_log = <<>>

\* Lines 166-205: one iteration of the trial loop.  The shuffle decides the
\* scores of the hero and of each opponent.
EquityTrial ==
    /\ eq_pc = "trials"
    /\ trial < iterations
    /\ trial' = trial + 1
    /\ IF TooFewCards
       THEN UNCHANGED <<equity_wins, trial_log>>
       ELSE \E hero_score \in ScoreVals :
            \E opp_scores \in [1 .. num_opponents -> ScoreVals] :
               LET best_opponent_score == BestOpponentScore(opp_scores)
               IN /\ equity_wins' = equity_wins
                        + TrialContribution(hero_score, best_opponent_score)
                  /\ trial_log' = Append(trial_log,
                                         <<hero_score, best_opponent_score>>)
    /\ UNCHANGED <<eq_pc, hero_hand, current_board, num_players, iterations,
                   equity_result, match_vars>>

\* Lines 207-214: the loop is over; the estimate is returned.
EquityReturn ==
    /\ eq_pc = "trials"
    /\ trial = iterations
    /\ equity_result' = WinPct(equity_wins, iterations)
    /\ eq_pc' = "returned"
    /\ UNCHANGED <<hero_hand, current_board, num_players, iterations, trial,
                   equity_wins, trial_log, match_vars>>

EquityNext ==
    \/ EquityTrial
    \/ EquityReturn

SpecEquity == EquityInit /\ [][EquityNext]_vars

\* ------------------------------------------------------------------------
\* Sanity of the model
\* ------------------------------------------------------------------------

TypeOK ==
    /\ pc \in {"loop", "buyin", "check", "r1", "post_r1", "r2", "r3",
               "showdown", "done", "crashed"}
    /\ game_num \in 0 .. MaxGames
    /\ \A p \in Seats : stack[p] \in Int /\ is_lost_match[p] \in BOOLEAN
    /\ outcome \in {"none", "halt", "early_win", "no_players", "showdown", "no_winner"}

\* Every division of the hand just settled was exact, so the integer
\* amounts are the amounts of exact arithmetic.
ScaleExact ==
    /\ \A p \in Seats :
          /\ 2 \in called[p] => current_bet_r1[p] % 2 = 0
          /\ 3 \in called[p] => current_bet_r2[p] % 4 = 0
    /\ outcome = "showdown" =>
          /\ pot % Len(winners) = 0
          /\ remaining_pot > 0 => remaining_pot % Len(Recipients) = 0

\* ------------------------------------------------------------------------
\* Properties
\* ------------------------------------------------------------------------

\* A step that ends a hand: play_match leaves round 1 or the showdown for
\* the loop header or the final results.
HandEnds == pc \in {"post_r1", "showdown"} /\ pc' \in {"loop", "done"}

\* The cap of a seat over the three rounds, written out: 4 x (buy-in + own
\* round-1 + round-2 + round-3 bet).
CapOf(p) == 4 * (BUY_IN + current_bet_r1[p] + current_bet_r2[p] + final_round_bet[p])

\* The seats that acted in round 1 and did not fold.
Unfolded == { p \in Range(round1_active_indices) : ~has_folded[p] }

\* C1: in every hand that reaches showdown the capped payouts sum to at most
\* the pot, and the capped payouts plus the amounts redistribution adds to
\* stacks equal the pot exactly: the stacks grow by the whole pot.
C1_ShowdownPaysWholePot ==
    [][(pc = "showdown" /\ outcome' = "showdown") =>
          /\ SumOver(payout', Seats) <= pot
          /\ SumOver(payout', Seats) + SumOver(redist', Seats) = pot
          /\ \A p \in Seats : stack'[p] = stack[p] + payout'[p] + redist'[p]
          /\ SumOver(stack', Seats) = SumOver(stack, Seats) + pot]_vars

\* C1 witness: a showdown in which a winner was held to its cap and the
\* remainder was redistributed.
C1_Witness ==
    /\ outcome = "showdown"
    /\ remaining_pot > 0
    /\ \E w \in Range(winners) :
          /\ ~is_lost_match[w]
          /\ payout[w] = CapOf(w)
          /\ redist[w] > 0

\* C2 as stated, for the hands that have a winner: for every hand that ends
\* in a showdown or in an early win, sum(payouts) <= pot and
\* sum(payouts) + remainder_redistributed = pot.
C2_EveryHandPaysWholePot ==
    outcome \in {"early_win", "showdown"} =>
        /\ SumOver(payout, Seats) <= pot
        /\ SumOver(payout, Seats) + SumOver(redist, Seats) = pot

\* C2 amended: for every completed hand sum(payouts) <= pot and the stacks
\* grow by exactly payouts plus redistribution; the two add up to the pot in
\* a hand that ends in showdown; an early win pays min(pot, 4 x (buy-in + own
\* round-1 bet)) and a hand without un-folded seat pays nothing, and in both
\* nothing is redistributed.
C2_PayoutsWithinPot ==
    [][HandEnds =>
          /\ SumOver(payout', Seats) <= pot
          /\ SumOver(stack', Seats)
                = SumOver(stack, Seats) + SumOver(payout', Seats) + SumOver(redist', Seats)
          /\ outcome' = "showdown" =>
                SumOver(payout', Seats) + SumOver(redist', Seats) = pot
          /\ outcome' = "early_win" =>
                /\ SumOver(redist', Seats) = 0
                /\ \E w \in Unfolded :
                      SumOver(payout', Seats)
                          = Min2(pot, 4 * (BUY_IN + current_bet_r1[w]))
          /\ outcome' = "no_players" =>
                SumOver(payout', Seats) + SumOver(redist', Seats) = 0]_vars

\* C2 witness: an early win in which the cap was below the pot, so part of
\* the pot was paid to nobody.
C2_Witness ==
    /\ outcome = "early_win"
    /\ SumOver(payout, Seats) < pot
    /\ SumOver(payout, Seats) > 0

C4_StackNonNegative == \A p \in Seats : stack[p] >= 0

\* C4 witness: in one hand a seat was eliminated, a seat bet its whole stack
\* in round 1 and a seat's round-2 bet was cut down to what it had left.
C4_Witness ==
    /\ pc = "showdown"
    /\ \E p \in Seats : is_lost_match[p] /\ hole_cards[p] # EmptyHole
    /\ \E p \in Seats :
          /\ stack[p] = 0
          /\ current_bet_r1[p] > 0
          /\ current_bet_r2[p] = 0
    /\ \E p \in Seats : current_bet_r2[p] > 0 /\ final_round_bet[p] > 0

\* The seat whose turn it is in the running betting loop.
Acting == IF pc = "r1" THEN round1_active_indices[cursor]
          ELSE round2_active_indices[cursor]

\* C5: for every player who acts in round 1 and every numeric raw value,
\* either the player is flagged folded with a round-1 bet of 0 and an
\* unchanged stack, or the applied bet lies in [100, 300] and does not exceed
\* the stack the player had before the bet.
C5_Round1BetInRange ==
    [][(pc = "r1" /\ pc' # "crashed") =>
          \/ /\ has_folded'[Acting]
             /\ current_bet_r1'[Acting] = 0
             /\ r1_bets'[Acting] = 0
             /\ stack'[Acting] = stack[Acting]
          \/ /\ ~has_folded'[Acting]
             /\ current_bet_r1'[Acting] >= Dollars(100)
             /\ current_bet_r1'[Acting] <= Dollars(300)
             /\ current_bet_r1'[Acting] <= stack[Acting]
             /\ r1_bets'[Acting] = current_bet_r1'[Acting]
             /\ stack'[Acting] = stack[Acting] - current_bet_r1'[Acting]]_vars

\* C5 witness: after round 1 one seat has bet the maximum of 300, one has
\* bet its whole stack of less than 300, and one has folded.
C5_Witness ==
    /\ pc = "post_r1"
    /\ \E p, q, r \in Seats :
          /\ current_bet_r1[p] = Dollars(300)
          /\ current_bet_r1[q] > Dollars(100) /\ current_bet_r1[q] < Dollars(300)
          /\ stack[q] = 0
          /\ has_folded[r] /\ current_bet_r1[r] = 0

\* C6 as stated: in rounds 2 and 3 the applied bet of every acting player
\* lies in [0.5, 1.5] x its round-1 bet, resp. [0.75, 1.25] x its round-2
\* bet, bounds included, and never exceeds its stack before the round.
C6_BetWithinBounds ==
    [][/\ (pc = "r2" /\ pc' # "crashed") =>
             /\ 2 * current_bet_r2'[Acting] >= current_bet_r1[Acting]
             /\ 2 * current_bet_r2'[Acting] <= 3 * current_bet_r1[Acting]
             /\ current_bet_r2'[Acting] <= stack[Acting]
       /\ (pc = "r3" /\ pc' # "crashed") =>
             /\ 4 * final_round_bet'[Acting] >= 3 * current_bet_r2[Acting]
             /\ 4 * final_round_bet'[Acting] <= 5 * current_bet_r2[Acting]
             /\ final_round_bet'[Acting] <= stack[Acting]]_vars

\* C6 amended: in rounds 2 and 3 the applied bet never exceeds the upper
\* bound (1.5 x the round-1 bet, resp. 1.25 x the round-2 bet) nor the stack
\* before the round; it is at least the lower bound (0.5 x, resp. 0.75 x)
\* whenever that stack covers the lower bound, and is the whole stack
\* otherwise.  (stack >= 0.5 x bet is written stack >= bet or
\* 2 x (bet - stack) <= bet, which keeps the numbers small.)
C6_BetWithinBoundsOrAllIn ==
    [][/\ (pc = "r2" /\ pc' # "crashed") =>
             /\ 2 * current_bet_r2'[Acting] <= 3 * current_bet_r1[Acting]
             /\ current_bet_r2'[Acting] <= stack[Acting]
             /\ stack'[Acting] = stack[Acting] - current_bet_r2'[Acting]
             /\ IF stack[Acting] >= current_bet_r1[Acting]
                   \/ 2 * (current_bet_r1[Acting] - stack[Acting]) <= current_bet_r1[Acting]
                THEN 2 * current_bet_r2'[Acting] >= current_bet_r1[Acting]
                ELSE current_bet_r2'[Acting] = stack[Acting]
       /\ (pc = "r3" /\ pc' # "crashed") =>
             /\ 4 * final_round_bet'[Acting] <= 5 * current_bet_r2[Acting]
             /\ final_round_bet'[Acting] <= stack[Acting]
             /\ stack'[Acting] = stack[Acting] - final_round_bet'[Acting]
             /\ IF stack[Acting] >= current_bet_r2[Acting]
                   \/ 4 * (current_bet_r2[Acting] - stack[Acting]) <= current_bet_r2[Acting]
                THEN 4 * final_round_bet'[Acting] >= 3 * current_bet_r2[Acting]
                ELSE final_round_bet'[Acting] = stack[Acting]]_vars

\* C6 witness: after round 3 one seat has bet the upper bound in rounds 2 and
\* 3, one the lower bound in both, and one had less than the round-2 lower
\* bound left and bet all of it.
C6_Witness ==
    /\ pc = "showdown"
    /\ \E p, q, r \in Range(round2_active_indices) :
          /\ 2 * current_bet_r2[p] = 3 * current_bet_r1[p]
          /\ 4 * final_round_bet[p] = 5 * current_bet_r2[p]
          /\ final_round_bet[p] > 0
          /\ 2 * current_bet_r2[q] = current_bet_r1[q]
          /\ 4 * final_round_bet[q] = 3 * current_bet_r2[q]
          /\ final_round_bet[q] > 0
          /\ 2 * current_bet_r2[r] < current_bet_r1[r]
          /\ stack[r] = 0

\* C7 as stated: once a player is marked eliminated the flag is never
\* cleared and the player's stack is 0 at every later point of the match,
\* the showdown of the hand of the elimination included.
C7_EliminatedStaysAtZero ==
    [][\A p \in Seats :
          is_lost_match[p] => (is_lost_match'[p] /\ stack'[p] = 0)]_vars

\* C8: after a player is marked eliminated the engine never again invokes
\* its round-1, round-2 or round-3 decision, debits a buy-in or bet from it,
\* or deals it cards.
C8_EliminatedNeverActs ==
    [][\A p \in Seats :
          is_lost_match[p] =>
              /\ (called'[p] \cap {1, 2, 3}) \subseteq called[p]
              /\ stack'[p] >= stack[p]
              /\ current_bet_r1'[p] \in {0, current_bet_r1[p]}
              /\ current_bet_r2'[p] \in {0, current_bet_r2[p]}
              /\ final_round_bet'[p] \in {0, final_round_bet[p]}
              /\ hole_cards'[p] \in {EmptyHole, hole_cards[p]}
              /\ p \notin Range(active_players_indices') \ Range(active_players_indices)
              /\ p \notin Range(round1_active_indices') \ Range(round1_active_indices)
              /\ p \notin Range(round2_active_indices') \ Range(round2_active_indices)]_vars

\* C8 witness: the second hand is played to its showdown with a seat that
\* was eliminated by the round-1 check of the first hand and seats that were
\* eliminated at a buy-in; none of them was dealt cards or placed a bet.
C8_Witness ==
    /\ game_num = 2
    /\ pc = "showdown"
    /\ Len(match_history) = 1
    /\ \E p \in Seats :
          /\ is_lost_match[p]
          /\ p \in DOMAIN match_history[1].seats
          /\ match_history[1].seats[p].hole_cards # EmptyHole
          /\ hole_cards[p] = EmptyHole
          /\ called[p] = {0}
    /\ \E q \in Seats :
          /\ is_lost_match[q]
          /\ q \notin DOMAIN match_history[1].seats
          /\ hole_cards[q] = EmptyHole
          /\ called[q] = {0}

\* C9: if exactly one of the seats that acted in round 1 is not folded, that
\* seat's stack is credited min(pot, 4 x (buy-in + own round-1 bet)), its
\* win counter grows by exactly one win, and no other stack or win counter
\* changes in the rest of the hand.
C9_EarlyWinPaysLastSeat ==
    [][(pc = "post_r1" /\ Cardinality(Unfolded) = 1) =>
          \E w \in Unfolded :
              /\ stack' = [stack EXCEPT
                    ![w] = @ + Min2(pot, 4 * (BUY_IN + current_bet_r1[w]))]
              /\ no_of_wins' = [no_of_wins EXCEPT ![w] = @ + WinUnit]
              /\ outcome' = "early_win"
              /\ pc' \in {"loop", "done"}]_vars

\* C9 witness: an early win after another seat folded, the winner taking
\* the whole pot.
C9_Witness ==
    /\ outcome = "early_win"
    /\ \E p \in Seats : has_folded[p]
    /\ \E w \in Unfolded : payout[w] = pot /\ no_of_wins[w] >= WinUnit

\* C10: in a hand that ends by early win there is no round-2 or round-3
\* strategy call, bet or showdown, and the hand's history entry records
\* exactly the three flop cards and a final-round bet of 0 for every seat.
C10_EarlyWinSkipsLaterRounds ==
    outcome = "early_win" =>
        /\ \A p \in Seats :
              /\ called[p] \cap {2, 3} = {}
              /\ current_bet_r2[p] = 0
              /\ final_round_bet[p] = 0
              /\ hand_score[p] = 0
              /\ Len(round_equities[p]) <= 1
        /\ Len(match_history) > 0
        /\ LET entry == match_history[Len(match_history)]
           IN /\ Len(entry.community_cards) = 3
              /\ entry.community_cards = SubSeq(community_cards, 1, 3)
              /\ Len(community_cards) = 5
              /\ DOMAIN entry.seats = Seats
              /\ \A p \in Seats : entry.seats[p].final_bet = 0

\* C10 witness: the second hand ends by early win after the first hand went
\* to a showdown.
C10_Witness ==
    /\ outcome = "early_win"
    /\ game_num = 2
    /\ Len(match_history) = 2
    /\ Len(match_history[1].community_cards) = 5
    /\ \E p \in Seats : current_bet_r1[p] > 0

\* C11: if no seat that acted in round 1 is left un-folded at the start of
\* round 2 (nobody was eligible to act included), the hand ends without
\* showdown and without payout: no stack and no win counter changes, no
\* round-2 or round-3 decision is invoked, exactly one history entry is
\* appended, and the match goes on to the next hand (to the final results
\* after the last hand).
C11_NoPlayersEndsHand ==
    [][(pc = "post_r1" /\ Unfolded = {}) =>
          /\ stack' = stack
          /\ no_of_wins' = no_of_wins
          /\ payout' = ZeroPerSeat /\ redist' = ZeroPerSeat
          /\ called' = called
          /\ hand_score' = hand_score
          /\ Len(match_history') = Len(match_history) + 1
          /\ SubSeq(match_history', 1, Len(match_history)) = match_history
          /\ Len(match_history'[Len(match_history')].community_cards) = 3
          /\ outcome' = "no_players"
          /\ pc' = IF game_num < MaxGames THEN "loop" ELSE "done"]_vars

\* C11 witness: the first hand ended because every acting seat folded, the
\* second because nobody could afford the round-1 minimum; nothing was paid
\* in either and the pots were credited to nobody.
C11_Witness ==
    /\ outcome = "no_players"
    /\ game_num = 2
    /\ Len(match_history) = 2
    /\ Len(match_history[1].community_cards) = 3
    /\ \E p \in Seats : match_history[1].seats[p].folded
    /\ round1_active_indices = <<>>
    /\ pot > 0
    /\ SumOver(no_of_wins, Seats) = 0

\* A history entry of a hand that had a winner: a showdown entry (all five
\* community cards), or a truncated entry in which exactly one of the seats
\* that acted in round 1 is not folded.
HadWinner(entry) ==
    \/ Len(entry.community_cards) = 5
    \/ Cardinality({ p \in DOMAIN entry.seats :
                        /\ entry.seats[p].equities # <<>>
                        /\ ~entry.seats[p].folded }) = 1

\* The number of win credits a match with history hist has handed out when
\* every hand with a winner hands out exactly one win.
WinsOwed(hist) == WinUnit * Cardinality({ i \in 1 .. Len(hist) : HadWinner(hist[i]) })

\* C12: the win credits added to the win counters in a hand sum to exactly
\* one win when the hand ends in an early win or a showdown, each of the k
\* showdown winners getting 1/k and nobody else anything; they sum to 0 when
\* the hand ends without winner or the match halts; so at any time the win
\* counters sum to the number of hands that had a winner.
C12_WinCreditsSumToOne ==
    [][/\ IF HandEnds /\ outcome' \in {"early_win", "showdown"}
          THEN /\ SumOver(no_of_wins', Seats) = SumOver(no_of_wins, Seats) + WinUnit
               /\ outcome' = "showdown" =>
                     /\ Len(winners') \in 1 .. NumPlayers
                     /\ \A p \in Seats :
                           (no_of_wins'[p] - no_of_wins[p]) * Len(winners')
                              = IF p \in Range(winners') THEN WinUnit ELSE 0
          ELSE no_of_wins' = no_of_wins
       /\ SumOver(no_of_wins', Seats) = WinsOwed(match_history')]_vars

\* C12 witness: after a three-way tie at showdown and an early win the
\* counters hold two wins, one of them in three thirds.
C12_Witness ==
    /\ outcome = "early_win"
    /\ Len(match_history) = 2
    /\ Len(winners) = 3
    /\ SumOver(no_of_wins, Seats) = 2 * WinUnit
    /\ \E p \in Seats : no_of_wins[p] = WinUnit \div 3

\* The dealt seats that did not fold.
Contenders == { p \in Range(active_players_indices) : ~has_folded[p] }

\* C13: at showdown the winner set is exactly the set of non-folded dealt
\* seats whose hand score equals the minimum score over all non-folded dealt
\* seats; a folded seat is never a winner, and seats with equal best scores
\* are all winners, each with the same uncapped share pot / (number of
\* winners), of which it is paid at most its cap.
C13_WinnersHoldMinimumScore ==
    outcome = "showdown" =>
        /\ Contenders # {}
        /\ Range(winners)
              = { p \in Contenders :
                    \A q \in Contenders : hand_score[p] <= hand_score[q] }
        /\ Len(winners) = Cardinality(Range(winners))
        /\ \A w \in Range(winners) :
              /\ ~has_folded[w]
              /\ pot % Len(winners) = 0
              /\ payout[w] = Min2(pot \div Len(winners), CapOf(w))
        /\ \A p \in Seats \ Range(winners) : payout[p] = 0

\* C13 witness: a showdown among three dealt seats of which one folded in
\* round 1 and the other two hold the same score and are paid the same half
\* of the pot.
C13_Witness ==
    /\ outcome = "showdown"
    /\ \E f \in Range(active_players_indices) : has_folded[f] /\ f \notin Range(winners)
    /\ Len(winners) = 2
    /\ \A w \in Range(winners) : payout[w] * 2 = pot

\* C14: when the showdown remainder (pot minus the sum of the capped
\* payouts) is positive it is split into equal shares that are added to the
\* stack of every seat that was active entering round 2, whether or not it
\* won, and to no other stack; when the remainder is 0 no stack changes
\* beyond the payouts.
C14_RemainderToRiverSeats ==
    [][(pc = "showdown" /\ outcome' = "showdown") =>
          LET remainder == pot - SumOver(payout', Seats)
              river == Range(round2_active_indices)
              gain == [p \in Seats |-> stack'[p] - stack[p] - payout'[p]]
          IN /\ remaining_pot' = remainder
             /\ remainder >= 0
             /\ \A p \in Seats \ river : gain[p] = 0
             /\ IF remainder > 0
                THEN /\ river # {}
                     /\ \A p \in river : gain[p] * Cardinality(river) = remainder
                ELSE \A p \in Seats : gain[p] = 0]_vars

\* C14 witness: a showdown with a positive remainder, of which a seat that
\* reached the river without winning got its share and a seat that folded in
\* round 1 got nothing.
C14_Witness ==
    /\ outcome = "showdown"
    /\ remaining_pot > 0
    /\ \E r \in Range(round2_active_indices) \ Range(winners) :
          redist[r] > 0 /\ stack[r] >= redist[r]
    /\ \E f \in Range(active_players_indices) : has_folded[f] /\ redist[f] = 0

\* C15 as stated: every showdown winner reached the river: each member of
\* the winner set is a member of the set of seats that was active entering
\* round 2 (the redistribution recipient set).
C15_WinnersReachedRiver ==
    outcome = "showdown" => Range(winners) \subseteq Range(round2_active_indices)

\* C16: at the buy-in step of every hand each not-yet-eliminated seat whose
\* stack is below the buy-in is marked eliminated, its whole residual stack
\* is added to the pot and its stack becomes exactly 0; every other
\* not-yet-eliminated seat is debited exactly the buy-in, which is added to
\* the pot, and is dealt two hole cards (of a deck from which no card is
\* dealt twice).
C16_BuyInStep ==
    [][pc = "buyin" =>
          LET short == { p \in Seats : ~is_lost_match[p] /\ stack[p] < Dollars(100) }
              funded == { p \in Seats : ~is_lost_match[p] /\ stack[p] >= Dollars(100) }
          IN /\ \A p \in short :
                   /\ is_lost_match'[p]
                   /\ stack'[p] = 0
                   /\ hole_cards'[p] = <<>>
             /\ \A p \in funded :
                   /\ ~is_lost_match'[p]
                   /\ stack'[p] = stack[p] - Dollars(100)
                   /\ Len(hole_cards'[p]) = 2
                   /\ hole_cards'[p][1] # hole_cards'[p][2]
                   /\ Range(hole_cards'[p]) \cap Range(community_cards') = {}
                   /\ \A q \in funded \ {p} :
                         Range(hole_cards'[p]) \cap Range(hole_cards'[q]) = {}
             /\ \A p \in Seats \ (short \cup funded) :
                   /\ is_lost_match'[p]
                   /\ stack'[p] = stack[p]
                   /\ hole_cards'[p] = <<>>
             /\ pot' = SumOver(stack, short) + Dollars(100) * Cardinality(funded)
             /\ Range(active_players_indices') = funded]_vars

\* C16 witness: at the buy-in of the second hand a seat that played the
\* first hand had less than the buy-in left and was eliminated, its residual
\* stack making the pot more than the buy-ins of the seats that were dealt
\* two cards.
C16_Witness ==
    /\ pc = "check"
    /\ game_num = 2
    /\ Len(active_players_indices) >= 2
    /\ \A p \in Range(active_players_indices) :
          Len(hole_cards[p]) = 2 /\ ~is_lost_match[p]
    /\ \E q \in Seats :
          /\ is_lost_match[q] /\ stack[q] = 0 /\ hole_cards[q] = <<>>
          /\ q \in DOMAIN match_history[1].seats
          /\ Len(match_history[1].seats[q].hole_cards) = 2
    /\ pot > Dollars(100) * Len(active_players_indices)

\* C17: at the start of round 1 every dealt seat whose stack after the
\* buy-in is below the round-1 minimum of 100 is eliminated at once: its
\* stack is added to the pot and set to 0, it is marked eliminated, and it is
\* not in the set that acts in round 1, round 2 or round 3; the other dealt
\* seats keep their stacks and form the round-1 set.
C17_Round1CheckEliminates ==
    [][/\ (pc = "check" /\ pc' # "done") =>
             LET dealt == Range(active_players_indices)
                 short == { p \in dealt : stack[p] < Dollars(100) }
             IN /\ \A p \in short :
                      /\ is_lost_match'[p]
                      /\ stack'[p] = 0
                      /\ p \notin Range(round1_active_indices')
                /\ \A p \in dealt \ short :
                      /\ is_lost_match'[p] = is_lost_match[p]
                      /\ stack'[p] = stack[p]
                      /\ p \in Range(round1_active_indices')
                /\ Range(round1_active_indices') \subseteq dealt
                /\ pot' = pot + SumOver(stack, short)
       /\ pc \in {"r1", "r2", "r3"} =>
             /\ Acting \in Range(round1_active_indices)
             /\ Acting \in Range(active_players_indices)
             /\ current_stacks[Acting] >= Dollars(100)
             /\ ~is_lost_match[Acting]]_vars

\* C17 witness: a hand reached its showdown after the round-1 check
\* eliminated a dealt seat that had a positive stack of less than 100 left;
\* that seat got no decision call while two other seats acted in all three
\* rounds.
C17_Witness ==
    /\ pc = "showdown"
    /\ \E p \in Range(active_players_indices) :
          /\ current_stacks[p] > 0 /\ current_stacks[p] < Dollars(100)
          /\ is_lost_match[p] /\ stack[p] = 0
          /\ called[p] = {0}
          /\ p \notin Range(round1_active_indices)
          /\ p \notin Range(round2_active_indices)
    /\ \E q, r \in Range(round2_active_indices) :
          q # r /\ called[q] = {0, 1, 2, 3} /\ called[r] = {0, 1, 2, 3}

\* C18: the match halts at the first hand in which fewer than 2 seats post
\* the buy-in: in that hand no round decision of a strategy is invoked, no
\* win is credited, no history entry is appended, and no later hand is
\* started; while at least 2 seats post the buy-in the hand is played, and
\* play_match reaches its final results before the fixed number of hands
\* only by that halt.
C18_HaltsBelowTwoPlayers ==
    [][/\ (pc = "check" /\ Len(active_players_indices) < 2) =>
             /\ pc' = "done" /\ outcome' = "halt"
             /\ game_num' = game_num
       /\ (pc = "check" /\ Len(active_players_indices) >= 2) =>
             /\ pc' \in {"r1", "post_r1"}
             /\ outcome' = "none"
       /\ pc \in {"loop", "buyin", "check"} =>
             /\ no_of_wins' = no_of_wins
             /\ match_history' = match_history
             /\ \A p \in Seats : called'[p] \subseteq {0}
       /\ outcome' = "halt" =>
             /\ Len(match_history') = game_num' - 1
             /\ SumOver(no_of_wins', Seats) = WinsOwed(match_history')
       /\ (pc # "done" /\ pc' = "done") =>
             \/ outcome' = "halt"
             \/ game_num = MaxGames
       /\ pc # "done"]_vars

\* C18 witness: the match was halted in its second hand, in which one seat
\* posted the buy-in, after a first hand that was played to its end; no
\* strategy was asked for a decision in the second hand.
C18_Witness ==
    /\ outcome = "halt"
    /\ pc = "done"
    /\ game_num = 2
    /\ Len(match_history) = 1
    /\ Len(active_players_indices) = 1
    /\ \A p \in Seats : called[p] = {0}

\* C19 as stated: a strategy call that raises an error, or that returns a
\* non-numeric or missing bet value, does not abort the match.
C19_FaultDoesNotAbort == pc # "crashed"

\* C20: at the start of hand k (1-based), before any buy-in or deal, the
\* initialization hook receives hand number k and a history with exactly
\* k - 1 entries, one per earlier hand in order: it is empty on hand 1, and
\* the history passed at hand k is the history passed at hand k - 1 with
\* exactly one entry appended; the engine only ever appends to the history
\* and leaves the entries it holds unchanged.
C20_HookGetsHistoryOfEarlierHands ==
    [][/\ initialize_game_args' # initialize_game_args =>
             LET k == initialize_game_args'.game_num
                 passed == initialize_game_args'.history
                 before == initialize_game_args.history
             IN /\ pc = "loop" /\ pc' = "buyin"
                /\ k = game_num' /\ k = initialize_game_args.game_num + 1
                /\ k \in 1 .. MaxGames
                /\ Len(passed) = k - 1
                /\ passed = match_history
                /\ k = 1 => passed = <<>>
                /\ k > 1 => /\ Len(before) = k - 2
                            /\ SubSeq(passed, 1, k - 2) = before
                /\ \A p \in Seats : 0 \in called'[p]
                /\ UNCHANGED <<ledger, pot, community_cards, match_history,
                               no_of_wins>>
       /\ (pc = "loop" /\ pc' = "buyin") =>
             initialize_game_args' # initialize_game_args
       /\ \/ match_history' = match_history
          \/ /\ Len(match_history') = Len(match_history) + 1
             /\ SubSeq(match_history', 1, Len(match_history)) = match_history
             /\ HandEnds]_vars

\* C20 witness: the hook of the second hand has been called with hand
\* number 2 and the one entry of the first hand, which went to a showdown,
\* and the second hand has appended its own entry since.
C20_Witness ==
    /\ initialize_game_args.game_num = 2
    /\ Len(initialize_game_args.history) = 1
    /\ Len(initialize_game_args.history[1].community_cards) = 5
    /\ Len(match_history) = 2
    /\ match_history[1] = initialize_game_args.history[1]

\* C21 as stated: before each hand the initialization hook is invoked only
\* for surviving players: it is never invoked for a player who is marked
\* eliminated at that time.
C21_HookOnlyForSurvivors ==
    [][(pc = "loop" /\ pc' = "buyin") =>
          \A p \in Seats : is_lost_match[p] => 0 \notin called'[p]]_vars

\* C22: the per-hand reset of a player sets hole cards, the three round
\* bets, the folded flag, the hand score and the equity sequence back to
\* their empty or zero values and leaves the stack and the elimination flag
\* unchanged; it is applied to every player, eliminated or not, at the start
\* of every hand, so that after the buy-in step only the seats that were
\* dealt hold cards and every other per-hand field of every seat is clear.
C22_ResetRoundClearsHandFields ==
    [][/\ \A p \in Seats :
             LET r == reset_round(PlayerState(p))
             IN /\ r.hole_cards = <<>>
                /\ r.current_bet_r1 = 0 /\ r.current_bet_r2 = 0
                /\ r.final_round_bet = 0
                /\ r.has_folded = FALSE
                /\ r.hand_score = 0
                /\ r.round_equities = <<>>
                /\ r.stack = stack[p]
                /\ r.is_lost_match = is_lost_match[p]
       /\ pc = "buyin" =>
             \A p \in Seats :
                /\ current_bet_r1'[p] = 0 /\ current_bet_r2'[p] = 0
                /\ final_round_bet'[p] = 0
                /\ has_folded'[p] = FALSE
                /\ hand_score'[p] = 0
                /\ round_equities'[p] = <<>>
                /\ p \notin Range(active_players_indices') => hole_cards'[p] = <<>>
                /\ is_lost_match[p] =>
                      /\ stack'[p] = stack[p]
                      /\ is_lost_match'[p]]_vars

\* C22 witness: after the buy-in of the second hand a seat that folded in
\* the first hand plays again with a cleared flag and new cards, and a seat
\* that was scored at the first hand's showdown and is eliminated now holds
\* no cards, no score and no equities.
C22_Witness ==
    /\ pc = "check"
    /\ game_num = 2
    /\ \E q \in Range(active_players_indices) :
          /\ q \in DOMAIN match_history[1].seats
          /\ match_history[1].seats[q].folded
          /\ ~has_folded[q]
          /\ Len(hole_cards[q]) = 2
          /\ hole_cards[q] # match_history[1].seats[q].hole_cards
    /\ \E p \in DOMAIN match_history[1].seats :
          /\ ~match_history[1].seats[p].folded
          /\ match_history[1].seats[p].final_score > 0
          /\ match_history[1].seats[p].equities # <<>>
          /\ is_lost_match[p]
          /\ hole_cards[p] = <<>> /\ hand_score[p] = 0 /\ round_equities[p] = <<>>
          /\ current_bet_r1[p] = 0

\* C23 as stated: within a single round the inputs given to an acting
\* seat's strategy call, in particular the pot value, do not depend on the
\* bets applied by other seats in that same round: the pot passed is the pot
\* with which the round started.
C23_PotArgumentIndependentOfPeers ==
    [][/\ pc = "r1" =>
             strategy_args'[Acting].pot = pot - SumOver(r1_bets, Seats)
       /\ pc = "r2" =>
             strategy_args'[Acting].pot = pot - SumOver(r2_bets, Seats)
       /\ pc = "r3" =>
             strategy_args'[Acting].pot = pot - SumOver(final_round_bet, Seats)]_vars

RECURSIVE SumOfContributions(_)
SumOfContributions(log) ==
    IF log = <<>> THEN 0
    ELSE (IF Head(log)[1] < Head(log)[2] THEN 2
          ELSE IF Head(log)[1] = Head(log)[2] THEN 1
          ELSE 0) + SumOfContributions(Tail(log))

C26_FoldedScoreIsSentinel ==
    \A i \in 1 .. Len(match_history) :
        \A p \in DOMAIN match_history[i].seats :
            (\/ match_history[i].seats[p].folded
             \/ Len(match_history[i].community_cards) = 3)
                => match_history[i].seats[p].final_score = SENTINEL_SCORE

\* C27 as stated: for every completed hand and every seat recorded in its
\* history entry, the stack stored in the entry equals that player's stack
\* at the end of the hand, after payouts and redistribution were applied.
C27_HistoryHoldsEndingStack ==
    [][HandEnds =>
          /\ Len(match_history') = Len(match_history) + 1
          /\ \A p \in DOMAIN match_history'[Len(match_history')].seats :
                match_history'[Len(match_history')].seats[p].stack = stack'[p]]_vars

\* C28: within a hand the phases are strictly ordered: no round-2 strategy
\* call or bet happens before the decision of every round-1 actor has been
\* applied, no round-3 call before every round-2 bet has been applied, each
\* seat is asked once per round, and for each acting seat the equity
\* estimate of a round (on 3, 4 and 5 visible cards) is the one passed to
\* its strategy call of that round and recorded for it.
C28_PhasesInOrder ==
    [][/\ pc = "r1" =>
             /\ called[Acting] = {0}
             /\ \A q \in Seats : called[q] \cap {2, 3} = {}
             /\ strategy_args'[Acting].win_prob
                   = <<3, Len(round1_active_indices)>>
       /\ pc = "r2" =>
             /\ called[Acting] = {0, 1}
             /\ \A q \in Range(round1_active_indices) :
                   /\ 1 \in called[q]
                   /\ Len(round_equities[q]) >= 1
                   /\ has_folded[q] \/ current_bet_r1[q] = r1_bets[q]
                   /\ has_folded[q] => current_bet_r1[q] = 0
             /\ \A q \in Seats : 3 \notin called[q]
             /\ strategy_args'[Acting].win_prob
                   = <<4, Len(round2_active_indices)>>
       /\ pc = "r3" =>
             /\ called[Acting] = {0, 1, 2}
             /\ \A q \in Range(round2_active_indices) :
                   /\ 2 \in called[q]
                   /\ Len(round_equities[q]) >= 2
                   /\ current_bet_r2[q] = r2_bets[q]
             /\ strategy_args'[Acting].win_prob
                   = <<5, Len(round2_active_indices)>>
       /\ (pc \in {"r1", "r2", "r3"} /\ pc' # "crashed") =>
             round_equities'[Acting]
                = Append(round_equities[Acting], strategy_args'[Acting].win_prob)]_vars

\* C28 witness: a hand is at its showdown after three seats were each asked
\* in round 1, round 2 and round 3 and hold the three estimates of the
\* rounds in order.
C28_Witness ==
    /\ pc = "showdown"
    /\ Len(round2_active_indices) = 3
    /\ \A q \in Range(round2_active_indices) :
          /\ called[q] = {0, 1, 2, 3}
          /\ round_equities[q] = << <<3, 3>>, <<4, 3>>, <<5, 3>> >>

\* C29 as stated: a hand can end early (early win or end without payout)
\* only directly after round 1; every hand in which round 2 begins has at
\* least two seats active entering round 2, none of them folded, and always
\* continues through round 3 to a showdown with a non-empty winner set; the
\* folded flag is only ever set by a round-1 decision.
C29_Round2LeadsToShowdown ==
    [][/\ outcome' \in {"early_win", "no_players"} =>
             \/ outcome' = outcome
             \/ /\ pc = "post_r1"
                /\ \A q \in Seats : called[q] \cap {2, 3} = {}
       /\ (pc = "post_r1" /\ pc' = "r2") =>
             /\ Len(round2_active_indices') >= 2
             /\ \A q \in Range(round2_active_indices') : ~has_folded[q]
       /\ pc = "r2" => pc' \in {"r2", "r3"}
       /\ pc = "r3" => pc' \in {"r3", "showdown"}
       /\ pc = "showdown" =>
             /\ outcome' = "showdown"
             /\ winners' # <<>>
             /\ pc' \in {"loop", "done"}
       /\ \A p \in Seats :
             (has_folded'[p] /\ ~has_folded[p]) => (pc = "r1" /\ p = Acting)]_vars

\* C30 as stated: every match terminates in the final-results phase: at most
\* NUM_GAMES hands are played, and whenever play_match can take no further
\* step it has reached the final results (normally or on the halt condition),
\* after which no stack, elimination flag, win counter or history entry
\* changes.
C30_MatchEndsInFinalResults ==
    /\ game_num <= MaxGames
    /\ Len(match_history) <= MaxGames
    /\ (~ENABLED Next) => pc = "done"

\* C31 as stated: in each of rounds 1, 2 and 3 the stacks passed to the
\* acting player's strategy call are the players' stacks at the time of the
\* call, reflecting every elimination and every bet already applied.
C31_StacksArgumentIsCurrent ==
    [][(pc \in {"r1", "r2", "r3"}) =>
         strategy_args'[Acting].stacks = stack]_vars

\* Seats dealt into the hand that the round-1 affordability check removed.
Round1Removed == Range(active_players_indices) \ Range(round1_active_indices)

\* C31: in each of rounds 1, 2 and 3 the stacks passed to the acting player's
\* strategy call are the stacks held after the buy-in and before the round-1
\* affordability check: for a seat that check removed, the residual amount
\* below the round-1 minimum it held then (its stack is 0 by now), and for
\* every other seat its present stack plus all bets it placed in the hand.
C31_StacksArgumentIsPreRound1Snapshot ==
    [][(pc \in {"r1", "r2", "r3"}) =>
         \A q \in Seats :
            IF q \in Round1Removed
            THEN /\ strategy_args'[Acting].stacks[q] \in 0 .. (R1_MIN - 1)
                 /\ stack[q] = 0
            ELSE strategy_args'[Acting].stacks[q]
                    = stack[q] + current_bet_r1[q] + current_bet_r2[q]
                      + final_round_bet[q]]_vars

\* A round-2 call was made with a stacks argument that shows a seat removed
\* by the round-1 check with money and the caller without its round-1 bet.
C31_Witness ==
    \E q \in Seats :
        /\ 2 \in called[q]
        /\ current_bet_r1[q] > 0
        /\ strategy_args[q].stacks[q]
              = stack[q] + current_bet_r1[q] + current_bet_r2[q]
        /\ \E r \in Round1Removed :
              /\ strategy_args[q].stacks[r] > 0
              /\ stack[r] = 0

\* C32 as stated: the total amount credited to a showdown winner's stack in
\* the hand (capped payout plus any redistribution share) never exceeds
\* 4 x (buy-in + that winner's own round-1, round-2 and round-3 bets).
C32_WinnerCreditWithinCap ==
    [][(pc = "showdown" /\ outcome' = "showdown") =>
          \A w \in Range(winners') : stack'[w] - stack[w] <= CapOf(w)]_vars

\* C32: the winning cap bounds the payout of a showdown winner, not the total
\* credited to it: the winner is credited min(pot / number of winners, cap)
\* and, when the remainder is positive and the winner was active entering
\* round 2, an equal share of the remainder on top of it, so the total is at
\* most the cap plus that share and never more than the pot.
C32_WinnerCreditIsCappedPayoutPlusShare ==
    [][(pc = "showdown" /\ outcome' = "showdown") =>
          LET remainder == pot - SumOver(payout', Seats)
              river == Range(round2_active_indices)
          IN \A w \in Range(winners') :
                LET credited == stack'[w] - stack[w]
                    onTop == credited
                               - Min2(pot \div Len(winners'), CapOf(w))
                IN /\ credited <= pot
                   /\ onTop >= 0
                   /\ IF w \in river /\ remainder > 0
                      THEN onTop * Cardinality(river) = remainder
                      ELSE onTop = 0]_vars

\* C32 witness: a showdown winner held to its cap received a share of the
\* remainder as well, so its stack grew by more than the cap.
C32_Witness ==
    /\ outcome = "showdown"
    /\ \E w \in Range(winners) :
          /\ payout[w] = CapOf(w)
          /\ redist[w] > 0
          /\ payout[w] + redist[w] > CapOf(w)
          /\ current_bet_r1[w] > 0

\* All stacks together.
TotalStacks == SumOver(stack, Seats)

\* C33: no money is ever created. Within a hand the sum of all stacks plus
\* the pot is constant up to the payout step: the buy-in step moves money
\* from the stacks to the pot, and the round-1 check and every bet do the
\* same. The step that ends the hand credits at most the pot, and exactly the
\* pot when the hand ends in showdown; between hands the stacks do not
\* change. Hence the sum of all stacks never increases and stays at or below
\* the number of players times the starting stack.
C33_NoMoneyCreated ==
    /\ []((TotalStacks + Scale - 1) \div Scale
              <= NumPlayers * STARTING_STACK_DOLLARS)
    /\ [][/\ pc = "loop" => TotalStacks' = TotalStacks
          /\ pc = "buyin" => TotalStacks' + pot' = TotalStacks
          /\ (pc \in {"check", "r1", "r2", "r3"} \/ (pc = "post_r1" /\ pc' = "r2"))
                => TotalStacks' + pot' = TotalStacks + pot
          /\ HandEnds =>
                /\ TotalStacks' <= TotalStacks + pot
                /\ outcome' = "showdown" => TotalStacks' = TotalStacks + pot
                /\ pot' = pot
          /\ TotalStacks' <= TotalStacks \/ HandEnds]_vars

\* C33 witness: the second hand of a match ended in a showdown that handed
\* out a pot holding buy-ins, bets and the residual stack of a seat
\* eliminated in that hand, a part of it by redistribution, after a first
\* hand that ended directly after round 1.
C33_Witness ==
    /\ game_num = 2
    /\ outcome = "showdown"
    /\ remaining_pot > 0
    /\ SumOver(payout, Seats) + SumOver(redist, Seats) = pot
    /\ \E p \in Seats : is_lost_match[p] /\ hole_cards[p] # EmptyHole
    /\ Len(match_history) = 2
    /\ Len(match_history[1].community_cards) = 3

\* C34: a player who folds in round 1 ends the hand with its stack at the
\* start of the hand minus the buy-in, whichever way the hand ends: the
\* buy-in step takes exactly the buy-in from every seat it deals in, the
\* stacks are recorded unchanged before round 1, and from its fold until the
\* next hand's buy-in step a folded seat holds exactly that recorded stack,
\* has no bet in any round, no payout and no redistribution share.
C34_FoldedKeepsStackAfterBuyIn ==
    /\ [](\A p \in Seats :
             has_folded[p] =>
                /\ stack[p] = current_stacks[p]
                /\ current_bet_r1[p] = 0 /\ r1_bets[p] = 0
                /\ current_bet_r2[p] = 0
                /\ final_round_bet[p] = 0
                /\ payout[p] = 0
                /\ redist[p] = 0
                /\ (pc \in {"r2", "r3", "showdown"} \/ outcome = "showdown")
                       => p \notin Range(round2_active_indices)
                /\ outcome = "showdown" => p \notin Range(winners))
    /\ [][/\ pc = "buyin" =>
                \A p \in Range(active_players_indices') :
                    stack'[p] = stack[p] - BUY_IN
          /\ (pc = "check" /\ pc' # "done") => current_stacks' = stack
          /\ \A p \in Seats :
                (has_folded[p] /\ pc # "buyin") =>
                    (has_folded'[p] /\ stack'[p] = stack[p])]_vars

\* C34 witness: a showdown that paid a capped winner and redistributed the
\* remainder, in a hand in which a seat had folded in round 1 and still
\* holds what it had left after the buy-in.
C34_Witness ==
    /\ outcome = "showdown"
    /\ remaining_pot > 0
    /\ SumOver(redist, Seats) > 0
    /\ \E f \in Range(round1_active_indices) :
          /\ has_folded[f]
          /\ 1 \in called[f]
          /\ stack[f] = current_stacks[f]
          /\ stack[f] > 0

\* C35: when the match halts because fewer than 2 seats posted the buy-in,
\* what that hand moved to the pot is not returned: the buy-in step of the
\* hand takes the buy-in from the seat that can pay it and the whole residual
\* stack from every seat that cannot (a seat eliminated before the hand is
\* passed over), the halt that follows changes no stack
\* and pays nothing, and the final results are reached with these stacks, so
\* a sole funded seat is reported with its stack before the hand minus the
\* buy-in.
C35_HaltKeepsBuyIn ==
    [][/\ (pc = "buyin" /\ Len(active_players_indices') < 2) =>
             /\ \A p \in Range(active_players_indices') :
                   /\ ~is_lost_match[p]
                   /\ stack'[p] = stack[p] - BUY_IN
             /\ \A p \in Seats \ Range(active_players_indices') :
                   stack'[p] = IF is_lost_match[p] THEN stack[p] ELSE 0
             /\ pot' = TotalStacks - TotalStacks'
             /\ pc' = "check"
       /\ (pc = "check" /\ Len(active_players_indices) < 2) =>
             /\ outcome' = "halt"
             /\ pc' = "done"
             /\ stack' = stack
             /\ pot' = pot
             /\ payout' = ZeroPerSeat /\ redist' = ZeroPerSeat
       /\ outcome = "halt" => pc = "done"
       /\ pc # "done"]_vars

\* C35 witness: the match was halted with a single funded seat; the pot
\* still holds that seat's buy-in and the residual stack of a seat eliminated
\* at the same buy-in step, and nothing was paid out.
C35_Witness ==
    /\ pc = "done"
    /\ outcome = "halt"
    /\ Len(active_players_indices) = 1
    /\ stack[active_players_indices[1]] > 0
    /\ pot > BUY_IN
    /\ \A p \in Seats \ Range(active_players_indices) : stack[p] = 0
    /\ payout = ZeroPerSeat

====
